---- MODULE Spec2Model ----
(***************************************************************************)
(* Model of the renderer of go-spook/spook (src/renderer/renderer.go and   *)
(* the view-model types of the same package).                              *)
(*                                                                         *)
(* Strings whose contents the code inspects (category names, tag names,    *)
(* group names, URL paths) are sequences of byte values, so that path.Join *)
(* and the "<" of sort.Slice are computed as Go computes them.  Strings    *)
(* that are only copied (titles, owner, author, file names) are TLA+       *)
(* strings.  A Go nil slice and an empty slice are both <<>>.              *)
(*                                                                         *)
(* The file system (theme directory, body files) and the template engine   *)
(* are the environment: what they answer during one call is an input of    *)
(* that call, recorded in the variable call.                               *)
(***************************************************************************)
EXTENDS Integers, Sequences, FiniteSets, TLC

VARIABLES
    rd,       \* the Renderer value (Config, Pages, Posts, Tags, Categories, Minimize, RootDir)
    call,     \* the last call: entry point, arguments, what the environment answered
    argPost,  \* the caller's post variable that was passed to the last RenderPost, after the call
    ret,      \* what the last call returned: n (RenderList's int) and err
    dst,      \* what the last call wrote to its destination writer
    view,     \* the view model the last call handed to executeTemplate
    steps     \* the stages the last call went through, in order

vars == <<rd, call, argPost, ret, dst, view, steps>>

----------------------------------------------------------------------------
(* Bounds of the model *)

MaxPosts == 3
MaxPagination == 2
MaxTags == 2

----------------------------------------------------------------------------
(* Byte strings *)

EmptyStr == <<>>
StrA == <<97>>
StrB == <<98>>
Uncategorized == <<117, 110, 99, 97, 116, 101, 103, 111, 114, 105, 122, 101, 100>>
SlashStr == <<47>>
DotStr == <<46>>
DotDotStr == <<46, 46>>
SlashCategory == <<47, 99, 97, 116, 101, 103, 111, 114, 121>>
SlashTag == <<47, 116, 97, 103>>
SlashPosts == <<47, 112, 111, 115, 116, 115>>
StrCategory == <<99, 97, 116, 101, 103, 111, 114, 121>>
StrTag == <<116, 97, 103>>

\* Go's < on strings: bytewise lexicographic order.
RECURSIVE StrLess(_, _)
StrLess(a, b) ==
    IF b = <<>> THEN FALSE
    ELSE IF a = <<>> THEN TRUE
    ELSE IF a[1] # b[1] THEN a[1] < b[1]
    ELSE StrLess(Tail(a), Tail(b))

\* strings.Split(s, "/")
RECURSIVE SplitAcc(_, _, _, _)
SplitAcc(s, i, cur, acc) ==
    IF i > Len(s) THEN Append(acc, cur)
    ELSE IF s[i] = SlashStr[1] THEN SplitAcc(s, i + 1, <<>>, Append(acc, cur))
    ELSE SplitAcc(s, i + 1, Append(cur, s[i]), acc)

SplitSlash(s) == SplitAcc(s, 1, <<>>, <<>>)

\* strings.Join(elems, "/")
RECURSIVE JoinSlash(_)
JoinSlash(elems) ==
    IF elems = <<>> THEN <<>>
    ELSE IF Len(elems) = 1 THEN elems[1]
    ELSE elems[1] \o SlashStr \o JoinSlash(Tail(elems))

\* The component stack of path.Clean: empty and "." components are dropped,
\* ".." removes the component before it (nothing above the root of a rooted path).
RECURSIVE CleanComps(_, _, _)
CleanComps(comps, rooted, out) ==
    IF comps = <<>> THEN out
    ELSE LET c == comps[1]
             rest == Tail(comps)
         IN  IF c = <<>> \/ c = DotStr THEN CleanComps(rest, rooted, out)
             ELSE IF c = DotDotStr
                  THEN IF out # <<>> /\ out[Len(out)] # DotDotStr
                       THEN CleanComps(rest, rooted, SubSeq(out, 1, Len(out) - 1))
                       ELSE IF rooted THEN CleanComps(rest, rooted, out)
                       ELSE CleanComps(rest, rooted, Append(out, c))
                  ELSE CleanComps(rest, rooted, Append(out, c))

\* path.Clean
Clean(p) ==
    IF p = <<>> THEN DotStr
    ELSE LET rooted == p[1] = SlashStr[1]
             body == JoinSlash(CleanComps(SplitSlash(p), rooted, <<>>))
             res == IF rooted THEN SlashStr \o body ELSE body
         IN  IF res = <<>> THEN DotStr ELSE res

\* path.Join and, with separator '/', filepath.Join: the elements from the first
\* non-empty one on are joined with "/" and the result is cleaned.
RECURSIVE PathJoin(_)
PathJoin(elems) ==
    IF elems = <<>> THEN <<>>
    ELSE IF elems[1] = <<>> THEN PathJoin(Tail(elems))
    ELSE Clean(JoinSlash(elems))

----------------------------------------------------------------------------
(* ListType *)

DEFAULT == 0
CATEGORY == 1
TAG == 2

ListTypes == {DEFAULT, CATEGORY, TAG}

----------------------------------------------------------------------------
(* Content values *)

MkPost(title, category, tags, author) ==
    [Path |-> title, Title |-> title, Excerpt |-> "", Thumbnail |-> "",
     Author |-> author, Category |-> category, Tags |-> tags,
     CreatedAt |-> "", UpdatedAt |-> ""]

ZeroPost == MkPost("", EmptyStr, <<>>, "")

MkPage(title) == [Path |-> title, Title |-> title, Excerpt |-> "", Thumbnail |-> ""]

MkGroup(name, path) == [Name |-> name, Path |-> path]

----------------------------------------------------------------------------
(* Environment: what the file system and the template engine answer in one call *)

TplResults == {"ok", "parse", "exec"}

NilErr == "nil"
ErrNoTheme == "No theme specified in configuration file"
ErrNoFrontPage == "Template for frontpage and list is not exist"
ErrNoList == "Template for list is not exist"
ErrNoPage == "Template for page is not exist"
ErrNoPost == "Template for post is not exist"
ErrReadDir == "ReadDir failed"
ErrReadIndex == "readIndexFile failed"
ErrParse == "ParseFiles failed"
ErrExec == "ExecuteTemplate failed"
ErrPanic == "panic: slice bounds out of range"

\* The entries ioutil.ReadDir finds in the theme directory.
DirItems ==
    << [Name |-> "_footer.html", IsDir |-> FALSE, HtmlSuffix |-> TRUE, UnderscorePrefix |-> TRUE],
       [Name |-> "_assets", IsDir |-> TRUE, HtmlSuffix |-> FALSE, UnderscorePrefix |-> TRUE],
       [Name |-> "_header.html", IsDir |-> FALSE, HtmlSuffix |-> TRUE, UnderscorePrefix |-> TRUE],
       [Name |-> "list.html", IsDir |-> FALSE, HtmlSuffix |-> TRUE, UnderscorePrefix |-> FALSE],
       [Name |-> "_notes.txt", IsDir |-> FALSE, HtmlSuffix |-> FALSE, UnderscorePrefix |-> TRUE] >>

fileExists(env, name) == name \in env.exists

readIndexFile(env, path) ==
    IF env.indexOk THEN [content |-> path, err |-> NilErr]
    ELSE [content |-> "", err |-> ErrReadIndex]

\* removeMetadata, blackfriday and highlightCode: the HTML is a function of the body read.
renderBody(content) == [html |-> content]

----------------------------------------------------------------------------
(* Renderer helpers *)

\* validateConfig that accepts every configuration.
validateConfigAny(r) == NilErr

validateConfig(r) ==
    IF r.Config.Theme = "" THEN ErrNoTheme ELSE NilErr

getBaseTemplates(r, env) ==
    IF ~env.dirOk THEN [templates |-> <<>>, err |-> ErrReadDir]
    ELSE LET keep(item) == ~item.IsDir /\ item.HtmlSuffix /\ item.UnderscorePrefix
             kept == SelectSeq(DirItems, keep)
         IN  [templates |-> [i \in 1..Len(kept) |-> kept[i].Name], err |-> NilErr]

\* getMaxPagination with an integer division in place of the ceiling.
getMaxPaginationFloor(r, posts) == Len(posts) \div r.Config.Pagination

\* math.Ceil(float64(nPosts) / float64(pageLength)), converted to int.
getMaxPagination(r, posts) ==
    LET nPosts == Len(posts)
        pageLength == r.Config.Pagination
    IN  IF nPosts % pageLength = 0
        THEN nPosts \div pageLength
        ELSE (nPosts \div pageLength) + 1

\* s[start:end]: panics unless 0 <= start <= end <= len(s).
SliceOf(s, start, end) ==
    IF 0 <= start /\ start <= end /\ end <= Len(s)
    THEN [panic |-> FALSE, posts |-> SubSeq(s, start + 1, end)]
    ELSE [panic |-> TRUE, posts |-> <<>>]

\* getListPosts with the window of page p starting where that of page p + 1 should.
getListPostsNextPage(r, posts, pageNumber) ==
    LET nPosts == Len(posts)
        pageLength == r.Config.Pagination
        start == pageNumber * pageLength
        end0 == start + pageLength
        end == IF end0 > nPosts THEN nPosts ELSE end0
    IN  SliceOf(posts, start, end)

getListPosts(r, posts, pageNumber) ==
    LET nPosts == Len(posts)
        pageLength == r.Config.Pagination
        start == (pageNumber - 1) * pageLength
        end0 == start + pageLength
        end == IF end0 > nPosts THEN nPosts ELSE end0
    IN  SliceOf(posts, start, end)

filterCategory(post, groupName) == post.Category = groupName

filterTag(post, groupName) == \E i \in 1..Len(post.Tags) : post.Tags[i] = groupName

\* translateGroupName that takes every group name as it is.
translateGroupNameNever(listType, groupName) == groupName

\* groupName after the branch that picks the filter.
translateGroupName(listType, groupName) ==
    IF listType # DEFAULT /\ listType = CATEGORY /\ groupName = Uncategorized
    THEN EmptyStr
    ELSE groupName

\* posts after the filter loop; the closures read groupName as it is when they run.
filterPosts(r, listType, groupName) ==
    IF listType = DEFAULT THEN r.Posts
    ELSE LET g == translateGroupName(listType, groupName)
             filter(post) == IF listType = CATEGORY
                             THEN filterCategory(post, g)
                             ELSE filterTag(post, g)
         IN  SelectSeq(r.Posts, filter)

clampPage(pageNumber) == IF pageNumber < 1 THEN 1 ELSE pageNumber

\* exceedsMaxPage with the bound off by one: the page after the last one passes.
exceedsMaxPageLate(pageNumber, maxPagination) == pageNumber > maxPagination + 1

exceedsMaxPage(pageNumber, maxPagination) == pageNumber > maxPagination

listPath(listType, groupName) ==
    IF listType = CATEGORY THEN PathJoin(<<SlashCategory, groupName>>)
    ELSE IF listType = TAG THEN PathJoin(<<SlashTag, groupName>>)
    ELSE SlashPosts

\* frontPageTemplate that looks for list.html first.
frontPageTemplateListFirst(env) ==
    IF fileExists(env, "list.html") THEN "list.html"
    ELSE IF fileExists(env, "frontpage.html") THEN "frontpage.html"
    ELSE ""

\* The template RenderFrontPage picks: its name, or "" when neither file exists.
frontPageTemplate(env) ==
    IF fileExists(env, "frontpage.html") THEN "frontpage.html"
    ELSE IF fileExists(env, "list.html") THEN "list.html"
    ELSE ""

postCategory(post) ==
    IF post.Category = EmptyStr
    THEN MkGroup(post.Category, PathJoin(<<SlashStr, StrCategory, Uncategorized>>))
    ELSE MkGroup(post.Category, PathJoin(<<SlashStr, StrCategory, post.Category>>))

tagGroup(tag) == MkGroup(tag, PathJoin(<<SlashStr, StrTag, tag>>))

\* sort.Slice with less = tags[i].Name < tags[j].Name (insertion sort below 12 elements).
RECURSIVE insertGroup(_, _)
insertGroup(sorted, g) ==
    IF sorted = <<>> THEN <<g>>
    ELSE LET last == sorted[Len(sorted)]
         IN  IF StrLess(g.Name, last.Name)
             THEN Append(insertGroup(SubSeq(sorted, 1, Len(sorted) - 1), g), last)
             ELSE Append(sorted, g)

\* sortGroups that leaves the groups in the order of the post's tags.
sortGroupsSkipped(groups) == groups

RECURSIVE sortGroups(_)
sortGroups(groups) ==
    IF groups = <<>> THEN <<>>
    ELSE insertGroup(sortGroups(SubSeq(groups, 1, Len(groups) - 1)), groups[Len(groups)])

\* The tags slice of RenderPost: one Group per tag, then sorted.
postTags(post) == sortGroups([i \in 1..Len(post.Tags) |-> tagGroup(post.Tags[i])])

\* RenderPost's local post after the author check.
withAuthor(r, post) ==
    IF post.Author = "" THEN [post EXCEPT !.Author = r.Config.Owner] ELSE post

\* callerPost for a post passed by reference: the caller sees what RenderPost assigned.
callerPostShared(post, local) == local

\* post is a value parameter: the caller's variable keeps what it held, whatever
\* RenderPost assigns to its own copy.
callerPost(post, local) == post

\* tpl.ExecuteTemplate writes as it goes; with Minimize it writes to a buffer that
\* reaches w only through the minifier.
executeTemplate(r, env, name, data) ==
    IF ~r.Minimize
    THEN IF env.tpl = "exec"
         THEN [err |-> ErrExec, out |-> <<[name |-> name, data |-> data, minified |-> FALSE, complete |-> FALSE]>>]
         ELSE [err |-> NilErr, out |-> <<[name |-> name, data |-> data, minified |-> FALSE, complete |-> TRUE]>>]
    ELSE IF env.tpl = "exec"
         THEN [err |-> ErrExec, out |-> <<>>]
         ELSE [err |-> NilErr, out |-> <<[name |-> name, data |-> data, minified |-> TRUE, complete |-> TRUE]>>]

----------------------------------------------------------------------------
(* View models *)

NoView == [kind |-> "none"]

Layout(websiteTitle, websiteOwner, contentTitle, contentDesc, contentAuthor, pages) ==
    [WebsiteTitle |-> websiteTitle, WebsiteOwner |-> websiteOwner,
     ContentTitle |-> contentTitle, ContentDesc |-> contentDesc,
     ContentAuthor |-> contentAuthor, Pages |-> pages]

\* The List literal of RenderFrontPage; Type is left at its zero value.
FrontPageView(r, window) ==
    [kind |-> "List",
     Layout |-> Layout(r.Config.Title, r.Config.Owner, r.Config.Title,
                       r.Config.Description, r.Config.Owner, r.Pages),
     Type |-> DEFAULT,
     Path |-> SlashPosts,
     CurrentPage |-> 1,
     MaxPage |-> getMaxPagination(r, r.Posts),
     Posts |-> window,
     Categories |-> r.Categories,
     Tags |-> r.Tags]

\* The List literal of RenderList; Tags and Categories are not set and stay nil.
ListView(r, listType, groupName, pageNumber, maxPagination, window) ==
    [kind |-> "List",
     Layout |-> Layout(r.Config.Title, r.Config.Owner, groupName,
                       r.Config.Description, "", r.Pages),
     Type |-> listType,
     Path |-> listPath(listType, groupName),
     CurrentPage |-> pageNumber,
     MaxPage |-> maxPagination,
     Posts |-> window,
     Categories |-> <<>>,
     Tags |-> <<>>]

PageView(r, page, html) ==
    [kind |-> "Page",
     Layout |-> Layout(r.Config.Title, r.Config.Owner, page.Title,
                       page.Excerpt, "", r.Pages),
     Thumbnail |-> page.Thumbnail,
     HTML |-> html]

PostView(r, post, olderPost, newerPost, category, tags, html) ==
    [kind |-> "Post",
     Layout |-> Layout(r.Config.Title, r.Config.Owner, post.Title,
                       post.Excerpt, post.Author, r.Pages),
     CreatedAt |-> post.CreatedAt,
     UpdatedAt |-> post.UpdatedAt,
     Category |-> category,
     Tags |-> tags,
     Thumbnail |-> post.Thumbnail,
     HTML |-> html,
     Older |-> olderPost,
     Newer |-> newerPost]

----------------------------------------------------------------------------
(* The four entry points, as functions of the renderer, the arguments and the *)
(* environment to what the call returns, writes, builds and goes through.     *)

Outcome(n, err, out, v, st) == [n |-> n, err |-> err, dst |-> out, view |-> v, steps |-> st]

\* Parse the templates and execute the named one against the view model; the name
\* of the executed template is the last of the steps.
parseAndExecute(r, env, name, v, okN, st) ==
    IF env.tpl = "parse"
    THEN Outcome(-1, ErrParse, <<>>, v, st \o <<"ParseFiles">>)
    ELSE LET e == executeTemplate(r, env, name, v)
         IN  Outcome(IF e.err = NilErr THEN okN ELSE -1, e.err, e.out, v,
                     st \o <<"ParseFiles", "executeTemplate", name>>)

RenderFrontPageRun(r, env) ==
    IF validateConfig(r) # NilErr
    THEN Outcome(0, validateConfig(r), <<>>, NoView, <<"validateConfig">>)
    ELSE LET base == getBaseTemplates(r, env)
             activeTemplate == frontPageTemplate(env)
             window == getListPosts(r, r.Posts, 1)
         IN  IF base.err # NilErr
             THEN Outcome(0, base.err, <<>>, NoView, <<"validateConfig", "getBaseTemplates">>)
             ELSE IF activeTemplate = ""
             THEN Outcome(0, ErrNoFrontPage, <<>>, NoView,
                          <<"validateConfig", "getBaseTemplates", "fileExists">>)
             ELSE IF window.panic
             THEN Outcome(0, ErrPanic, <<>>, NoView,
                          <<"validateConfig", "getBaseTemplates", "fileExists", "paginate">>)
             ELSE parseAndExecute(r, env, activeTemplate, FrontPageView(r, window.posts), 0,
                          <<"validateConfig", "getBaseTemplates", "fileExists", "paginate">>)

RenderListRun(r, listType, groupName, pageNumber, env) ==
    IF validateConfig(r) # NilErr
    THEN Outcome(-1, validateConfig(r), <<>>, NoView, <<"validateConfig">>)
    ELSE IF ~fileExists(env, "list.html")
    THEN Outcome(-1, ErrNoList, <<>>, NoView, <<"validateConfig", "fileExists">>)
    ELSE LET base == getBaseTemplates(r, env)
             posts == filterPosts(r, listType, groupName)
             g == translateGroupName(listType, groupName)
             p == clampPage(pageNumber)
             maxPagination == getMaxPagination(r, posts)
             window == getListPosts(r, posts, p)
             st == <<"validateConfig", "fileExists", "getBaseTemplates", "filter", "paginate">>
         IN  IF base.err # NilErr
             THEN Outcome(-1, base.err, <<>>, NoView,
                          <<"validateConfig", "fileExists", "getBaseTemplates">>)
             ELSE IF exceedsMaxPage(p, maxPagination)
             THEN Outcome(-1, NilErr, <<>>, NoView, st)
             ELSE IF window.panic
             THEN Outcome(-1, ErrPanic, <<>>, NoView, st)
             ELSE parseAndExecute(r, env, "list.html",
                          ListView(r, listType, g, p, maxPagination, window.posts),
                          Len(posts), st)

RenderPageRun(r, page, env) ==
    IF validateConfig(r) # NilErr
    THEN Outcome(0, validateConfig(r), <<>>, NoView, <<"validateConfig">>)
    ELSE IF ~fileExists(env, "page.html")
    THEN Outcome(0, ErrNoPage, <<>>, NoView, <<"validateConfig", "fileExists">>)
    ELSE LET base == getBaseTemplates(r, env)
             body == readIndexFile(env, page.Path)
             st == <<"validateConfig", "fileExists", "getBaseTemplates", "readIndexFile">>
         IN  IF base.err # NilErr
             THEN Outcome(0, base.err, <<>>, NoView,
                          <<"validateConfig", "fileExists", "getBaseTemplates">>)
             ELSE IF body.err # NilErr
             THEN Outcome(0, body.err, <<>>, NoView, st)
             ELSE parseAndExecute(r, env, "page.html",
                          PageView(r, page, renderBody(body.content)), 0, st)

RenderPostRun(r, post, olderPost, newerPost, env) ==
    IF validateConfig(r) # NilErr
    THEN Outcome(0, validateConfig(r), <<>>, NoView, <<"validateConfig">>)
    ELSE IF ~fileExists(env, "post.html")
    THEN Outcome(0, ErrNoPost, <<>>, NoView, <<"validateConfig", "fileExists">>)
    ELSE LET base == getBaseTemplates(r, env)
             category == postCategory(post)
             tags == postTags(post)
             local == withAuthor(r, post)
             body == readIndexFile(env, local.Path)
             st == <<"validateConfig", "fileExists", "getBaseTemplates", "groups", "readIndexFile">>
         IN  IF base.err # NilErr
             THEN Outcome(0, base.err, <<>>, NoView,
                          <<"validateConfig", "fileExists", "getBaseTemplates">>)
             ELSE IF body.err # NilErr
             THEN Outcome(0, body.err, <<>>, NoView, st)
             ELSE parseAndExecute(r, env, "post.html",
                          PostView(r, local, olderPost, newerPost, category, tags,
                                   renderBody(body.content)), 0, st)

\* The caller's post variable after RenderPost returns.
RenderPostArg(r, post, env) ==
    IF validateConfig(r) # NilErr \/ ~fileExists(env, "post.html") \/ ~env.dirOk
    THEN post
    ELSE callerPost(post, withAuthor(r, post))

----------------------------------------------------------------------------
(* Inputs *)

P1 == MkPost("p1", EmptyStr, <<StrB, StrA>>, "")
P2 == MkPost("p2", StrA, <<StrA>>, "ann")
P3 == MkPost("p3", Uncategorized, <<>>, "")
P4 == MkPost("p4", EmptyStr, <<>>, "ann")

PostPool == {P1, P2, P3, P4}

SeqsUpTo(S, n) == UNION {[1..k -> S] : k \in 0..n}

SitePages == <<MkPage("about")>>
SiteTags == <<MkGroup(StrA, SlashTag \o SlashStr \o StrA), MkGroup(StrB, SlashTag \o SlashStr \o StrB)>>
SiteCategories == <<MkGroup(EmptyStr, SlashCategory \o SlashStr \o Uncategorized),
                    MkGroup(StrA, SlashCategory \o SlashStr \o StrA)>>

Themes == {"", "simple"}
GroupNames == {EmptyStr, StrA, StrB, Uncategorized}
PageNumbers == (-1) .. (MaxPosts + 1)
TagNames == {EmptyStr, StrA, StrB}
ArgPosts == {MkPost("arg", ca[1], t, ca[2]) :
                ca \in {<<EmptyStr, "">>, <<StrA, "ann">>}, t \in SeqsUpTo(TagNames, MaxTags)}
ArgPages == {MkPage("about"), MkPage("contact")}

Env(exists, dirOk, indexOk, tpl) ==
    [exists |-> exists, dirOk |-> dirOk, indexOk |-> indexOk, tpl |-> tpl]

\* A call that fails validateConfig asks the environment nothing.
NoEnv == Env({}, TRUE, TRUE, "ok")

FrontPageEnvs ==
    {Env({}, FALSE, TRUE, "ok"), Env({}, TRUE, TRUE, "ok")}
    \cup {Env(x, TRUE, TRUE, t) : x \in (SUBSET {"frontpage.html", "list.html"}) \ {{}},
                                  t \in TplResults}

KindEnvs(name, readsIndex) ==
    {Env({}, TRUE, TRUE, "ok"), Env({name}, FALSE, TRUE, "ok")}
    \cup (IF readsIndex THEN {Env({name}, TRUE, FALSE, "ok")} ELSE {})
    \cup {Env({name}, TRUE, TRUE, t) : t \in TplResults}

EnvsOf(r, envs) == IF validateConfig(r) # NilErr THEN {NoEnv} ELSE envs

----------------------------------------------------------------------------
(* State machine *)

NoCall == [op |-> "none"]
NoRet == [n |-> 0, err |-> NilErr]

\* The renderers a site is built with.  The page size comes from the loaded
\* configuration and is positive; the theme may be missing.
Renderers(postLists, minimize) ==
    {[Config |-> [Theme |-> th, Title |-> "site", Owner |-> "owner",
                  Description |-> "desc", Pagination |-> s],
      Pages |-> SitePages, Posts |-> ps, Tags |-> SiteTags,
      Categories |-> SiteCategories, Minimize |-> m, RootDir |-> "root"] :
         th \in Themes, s \in 1..MaxPagination, ps \in postLists, m \in minimize}

Fresh ==
    /\ call = NoCall
    /\ argPost = ZeroPost
    /\ ret = NoRet
    /\ dst = <<>>
    /\ view = NoView
    /\ steps = <<>>

Init ==
    /\ rd \in Renderers(SeqsUpTo(PostPool, MaxPosts), BOOLEAN)
    /\ Fresh

Returns(o) ==
    /\ ret' = [n |-> o.n, err |-> o.err]
    /\ dst' = o.dst
    /\ view' = o.view
    /\ steps' = o.steps

RenderFrontPage ==
    \E env \in EnvsOf(rd, FrontPageEnvs) :
        /\ call' = [op |-> "RenderFrontPage", env |-> env]
        /\ Returns(RenderFrontPageRun(rd, env))
        /\ argPost' = ZeroPost
        /\ UNCHANGED rd

RenderList ==
    \E listType \in ListTypes, groupName \in GroupNames, pageNumber \in PageNumbers,
       env \in EnvsOf(rd, KindEnvs("list.html", FALSE)) :
        /\ call' = [op |-> "RenderList", listType |-> listType, groupName |-> groupName,
                    pageNumber |-> pageNumber, env |-> env]
        /\ Returns(RenderListRun(rd, listType, groupName, pageNumber, env))
        /\ argPost' = ZeroPost
        /\ UNCHANGED rd

RenderPage ==
    \E page \in ArgPages, env \in EnvsOf(rd, KindEnvs("page.html", TRUE)) :
        /\ call' = [op |-> "RenderPage", page |-> page, env |-> env]
        /\ Returns(RenderPageRun(rd, page, env))
        /\ argPost' = ZeroPost
        /\ UNCHANGED rd

RenderPost ==
    \E post \in ArgPosts, env \in EnvsOf(rd, KindEnvs("post.html", TRUE)) :
        /\ call' = [op |-> "RenderPost", post |-> post, olderPost |-> ZeroPost,
                    newerPost |-> P2, env |-> env]
        /\ Returns(RenderPostRun(rd, post, ZeroPost, P2, env))
        /\ argPost' = RenderPostArg(rd, post, env)
        /\ UNCHANGED rd

\* One call of an entry point.
Calls ==
    \/ RenderFrontPage
    \/ RenderList
    \/ RenderPage
    \/ RenderPost

\* The caller has taken the result and the output of the last call; the next call
\* gets its arguments and a destination nothing has been written to.
CallerResets ==
    /\ call # NoCall
    /\ call' = NoCall
    /\ argPost' = ZeroPost
    /\ ret' = NoRet
    /\ dst' = <<>>
    /\ view' = NoView
    /\ steps' = <<>>
    /\ UNCHANGED rd

\* Calls one after the other, each on a destination of its own.
Next ==
    \/ call = NoCall /\ RenderFrontPage
    \/ call = NoCall /\ RenderList
    \/ call = NoCall /\ RenderPage
    \/ call = NoCall /\ RenderPost
    \/ CallerResets

Spec == Init /\ [][Next]_vars

\* Calls that follow each other directly, the result of the last one still at hand,
\* on one site.
InitRepeat ==
    /\ rd \in Renderers({SubSeq(<<P1, P2, P3, P4>>, 1, MaxPosts)}, {FALSE})
    /\ Fresh

SpecRepeat == InitRepeat /\ [][Calls]_vars

----------------------------------------------------------------------------
(* Notions the claims are stated with *)

\* ceil(n / s) for s > 0: the least m with m * s >= n.
PageCount(n, s) == CHOOSE m \in 0..n : m * s >= n /\ (m = 0 \/ (m - 1) * s < n)

Min(a, b) == IF a < b THEN a ELSE b

RECURSIVE ConcatAll(_)
ConcatAll(ss) == IF ss = <<>> THEN <<>> ELSE ss[1] \o ConcatAll(Tail(ss))

\* The last call got past config validation and template resolution of RenderList.
ListResolved ==
    /\ call.op = "RenderList"
    /\ rd.Config.Theme # ""
    /\ "list.html" \in call.env.exists
    /\ call.env.dirOk

\* The last call executed the named template.
Executed(name) ==
    /\ Len(steps) >= 2
    /\ steps[Len(steps) - 1] = "executeTemplate"
    /\ steps[Len(steps)] = name

Absent == ret = [n |-> -1, err |-> NilErr] /\ dst = <<>>

\* The posts the last RenderList call filters, and its page number after clamping.
CallPosts == filterPosts(rd, call.listType, call.groupName)
CallPage == IF call.pageNumber < 1 THEN 1 ELSE call.pageNumber

----------------------------------------------------------------------------
(* C1: RenderList, with valid config and resolved list template, returns the     *)
(* absence result (-1, nil error) and writes nothing whenever max(pageNumber, 1) *)
(* exceeds the page count of the filtered posts; with no filtered post every     *)
(* page number yields absence.                                                   *)
C1_AbsentBeyondMaxPage ==
    ListResolved =>
        /\ CallPage > PageCount(Len(CallPosts), rd.Config.Pagination) => Absent
        /\ CallPosts = <<>> => Absent

\* C1 witness: a page beyond the last one of a non-empty filtered list yields absence.
C1_Witness ==
    /\ ListResolved
    /\ CallPosts # <<>>
    /\ call.pageNumber > PageCount(Len(CallPosts), rd.Config.Pagination)
    /\ Absent

----------------------------------------------------------------------------
\* The window getListPosts returns for page p of posts, on the renderer at hand.
WindowOf(posts, p) == getListPosts(rd, posts, p)

(* C2: for a filtered list of length N, page size S > 0 and every page p in      *)
(* 1..maxPage, getListPosts returns the slice [(p-1)*S, min(p*S, N)) of the      *)
(* list, of length min(S, N-(p-1)*S) >= 1; the windows of pages 1..maxPage, in   *)
(* order, are adjacent and disjoint and together are the whole list.  The page   *)
(* a RenderList call renders carries that window.                                *)
C2_WindowsPartitionList ==
    call.op = "RenderList" =>
        LET posts == CallPosts
            N == Len(posts)
            S == rd.Config.Pagination
            maxPage == PageCount(N, S)
        IN  /\ \A p \in 1..maxPage :
                 /\ ~WindowOf(posts, p).panic
                 /\ Len(WindowOf(posts, p).posts) = Min(S, N - (p - 1) * S)
                 /\ Len(WindowOf(posts, p).posts) >= 1
                 /\ \A i \in 1..Len(WindowOf(posts, p).posts) :
                        WindowOf(posts, p).posts[i] = posts[(p - 1) * S + i]
            /\ ConcatAll([p \in 1..maxPage |-> WindowOf(posts, p).posts]) = posts
            /\ view.kind = "List" =>
                 /\ view.CurrentPage \in 1..maxPage
                 /\ view.Posts = SubSeq(posts, (view.CurrentPage - 1) * S + 1,
                                        Min(view.CurrentPage * S, N))

\* The last page of three posts in pages of two is rendered: a clipped window.
C2_Witness ==
    /\ call.op = "RenderList"
    /\ view.kind = "List"
    /\ Len(CallPosts) = 3
    /\ rd.Config.Pagination = 2
    /\ view.CurrentPage = 2
    /\ Len(view.Posts) = 1
    /\ view.Posts[1] = CallPosts[3]

----------------------------------------------------------------------------
(* C3: for N >= 0 posts and page size S > 0, getMaxPagination returns ceil(N/S), *)
(* which is 0 for N = 0; MaxPage of the List view model of RenderList and of     *)
(* RenderFrontPage is that value for the (filtered) post set.                    *)
C3_MaxPageIsCeiling ==
    /\ \A k \in 0..Len(rd.Posts) :
          /\ getMaxPagination(rd, SubSeq(rd.Posts, 1, k)) = PageCount(k, rd.Config.Pagination)
          /\ k = 0 => getMaxPagination(rd, SubSeq(rd.Posts, 1, k)) = 0
    /\ (call.op = "RenderList" /\ view.kind = "List") =>
          view.MaxPage = PageCount(Len(CallPosts), rd.Config.Pagination)
    /\ (call.op = "RenderFrontPage" /\ view.kind = "List") =>
          view.MaxPage = PageCount(Len(rd.Posts), rd.Config.Pagination)

\* Three posts in pages of two: the ceiling, 2, differs from the floor.
C3_Witness ==
    /\ call.op = "RenderFrontPage"
    /\ view.kind = "List"
    /\ Len(rd.Posts) = 3
    /\ rd.Config.Pagination = 2
    /\ view.MaxPage = 2

----------------------------------------------------------------------------
ClaimedCategoryMatch(post, groupName) ==
    \/ post.Category = groupName
    \/ post.Category = EmptyStr /\ groupName = Uncategorized

(* C4, as claimed: in a CATEGORY list a post with category "" is selected when   *)
(* the group name is "uncategorized", a post with category x is selected when    *)
(* the group name is x, and for no other group name; the filtered posts keep the *)
(* order of the renderer's list.                                                 *)
C4_Original ==
    (ListResolved /\ call.listType = CATEGORY) =>
        LET claimed(post) == ClaimedCategoryMatch(post, call.groupName)
        IN  /\ CallPosts = SelectSeq(rd.Posts, claimed)
            /\ ret.err = NilErr /\ ret.n >= 0 => ret.n = Len(SelectSeq(rd.Posts, claimed))

AmendedCategoryMatch(post, groupName) ==
    IF groupName = Uncategorized
    THEN post.Category = EmptyStr
    ELSE post.Category = groupName

(* C4, amended: the group name "uncategorized" selects exactly the posts whose   *)
(* category is ""; any other group name g selects exactly the posts whose        *)
(* category is g.  So a post with category "" is selected by "uncategorized"     *)
(* and by "", a post whose category is the literal "uncategorized" by no group   *)
(* name, and a post with any other category x by x alone.  The filtered posts    *)
(* keep the order of the renderer's list, and a rendered page returns their      *)
(* count.                                                                        *)
C4_CategoryFilter ==
    (ListResolved /\ call.listType = CATEGORY) =>
        LET amended(post) == AmendedCategoryMatch(post, call.groupName)
        IN  /\ CallPosts = SelectSeq(rd.Posts, amended)
            /\ ret.err = NilErr /\ ret.n >= 0 => ret.n = Len(SelectSeq(rd.Posts, amended))
            /\ call.groupName = Uncategorized =>
                   \A i \in 1..Len(rd.Posts) :
                       rd.Posts[i].Category = Uncategorized =>
                           \A j \in 1..Len(CallPosts) : CallPosts[j] # rd.Posts[i]

\* The list of "uncategorized" is rendered from a site that holds, in this order,
\* a post without category, a post of the category named "uncategorized" and
\* another post without category: the two posts without category, in that order.
C4_Witness ==
    /\ ListResolved
    /\ call.listType = CATEGORY
    /\ call.groupName = Uncategorized
    /\ rd.Posts = <<P4, P3, P1>>
    /\ ret = [n |-> 2, err |-> NilErr]
    /\ view.kind = "List"
    /\ rd.Config.Pagination = 2
    /\ view.Posts = <<P4, P1>>

----------------------------------------------------------------------------
(* C5, as claimed: Path of the List view model of RenderList is "/posts" for     *)
(* DEFAULT, "/category/<name>" for CATEGORY with group name <name> (so           *)
(* "/category/uncategorized" for the group name "uncategorized") and             *)
(* "/tag/<name>" for TAG; <name> is a non-empty group name.                      *)
C5_ListPath ==
    (call.op = "RenderList" /\ view.kind = "List" /\ call.groupName # EmptyStr) =>
        view.Path = CASE call.listType = DEFAULT -> SlashPosts
                      [] call.listType = CATEGORY -> SlashCategory \o SlashStr \o call.groupName
                      [] call.listType = TAG -> SlashTag \o SlashStr \o call.groupName

----------------------------------------------------------------------------
(* C6: RenderFrontPage, with a valid config and a readable theme directory,      *)
(* executes frontpage.html whenever it exists, whether or not list.html does;    *)
(* executes list.html exactly when frontpage.html is absent and list.html        *)
(* exists; returns an error and writes nothing when neither exists.  (A template *)
(* is executed once the template set has been parsed.)                           *)
C6_FrontPageTemplate ==
    (call.op = "RenderFrontPage" /\ rd.Config.Theme # "" /\ call.env.dirOk) =>
        LET hasFront == "frontpage.html" \in call.env.exists
            hasList == "list.html" \in call.env.exists
            parsed == call.env.tpl # "parse"
        IN  /\ (hasFront /\ parsed) => Executed("frontpage.html")
            /\ parsed => (Executed("list.html") <=> (~hasFront /\ hasList))
            /\ ~parsed => ~Executed("frontpage.html") /\ ~Executed("list.html")
            /\ (~hasFront /\ ~hasList) =>
                   /\ ret.err = ErrNoFrontPage
                   /\ dst = <<>>
                   /\ view.kind = "none"
            /\ Executed("frontpage.html") \/ Executed("list.html") =>
                   /\ view.kind = "List"
                   /\ (ret.err = NilErr => dst # <<>> /\ dst[1].name = steps[Len(steps)])

\* Both templates exist and frontpage.html is the one executed.
C6_Witness ==
    /\ call.op = "RenderFrontPage"
    /\ call.env.exists = {"frontpage.html", "list.html"}
    /\ Executed("frontpage.html")
    /\ ret.err = NilErr
    /\ dst # <<>>
    /\ dst[1].name = "frontpage.html"

----------------------------------------------------------------------------
(* C7: with an empty theme identifier each of the four entry points returns the  *)
(* configuration error after validateConfig alone (no template resolution, no    *)
(* filtering, no body read, no view model) and writes nothing, whatever the      *)
(* arguments; RenderList returns the error also for a page number beyond the     *)
(* maximum, not the absence result.                                              *)
C7_EmptyThemeFails ==
    (call.op # "none" /\ rd.Config.Theme = "") =>
        /\ ret.err = ErrNoTheme
        /\ ret.err # NilErr
        /\ dst = <<>>
        /\ steps = <<"validateConfig">>
        /\ view.kind = "none"
        /\ call.op = "RenderList" => ret.n = -1 /\ ~Absent

\* RenderList for a page beyond the last one, on a renderer without theme.
C7_Witness ==
    /\ call.op = "RenderList"
    /\ rd.Config.Theme = ""
    /\ call.pageNumber > PageCount(Len(CallPosts), rd.Config.Pagination)
    /\ ret = [n |-> -1, err |-> ErrNoTheme]
    /\ dst = <<>>

----------------------------------------------------------------------------
(* C9, as claimed: every List view model, built by RenderFrontPage or by         *)
(* RenderList, carries the renderer's tag groups and category groups in Tags and *)
(* Categories.                                                                   *)
C9_ListCarriesGroups ==
    view.kind = "List" =>
        /\ view.Tags = rd.Tags
        /\ view.Categories = rd.Categories

----------------------------------------------------------------------------
----------------------------------------------------------------------------
Count(seq, x) == Cardinality({i \in DOMAIN seq : seq[i] = x})

OneGroupPerTagSorted(tags, groups) ==
    /\ Len(groups) = Len(tags)
    /\ \A i \in DOMAIN tags :
           Count([j \in DOMAIN groups |-> groups[j].Name], tags[i]) = Count(tags, tags[i])
    /\ \A i \in 1..(Len(groups) - 1) : ~StrLess(groups[i + 1].Name, groups[i].Name)

(* C10, as claimed: the Tags of the Post view model hold exactly one Group per   *)
(* tag of the post, with name the tag and path "/tag/<tag>", in non-decreasing   *)
(* lexicographic order of name, whatever the order of the post's tags.           *)
C10_Original ==
    (call.op = "RenderPost" /\ view.kind = "Post") =>
        /\ OneGroupPerTagSorted(call.post.Tags, view.Tags)
        /\ \A i \in DOMAIN view.Tags :
               view.Tags[i].Path = SlashTag \o SlashStr \o view.Tags[i].Name

PlainName(name) ==
    /\ name # EmptyStr
    /\ name # DotStr
    /\ name # DotDotStr
    /\ \A i \in DOMAIN name : name[i] # SlashStr[1]

(* C10, amended: one Group per tag, name the tag, in non-decreasing              *)
(* lexicographic order of name; the path is "/tag/<tag>" for a tag that is a     *)
(* plain name (not empty, no "/", not "." or "..") and "/tag" for the empty tag. *)
C10_TagGroupsSorted ==
    (call.op = "RenderPost" /\ view.kind = "Post") =>
        /\ OneGroupPerTagSorted(call.post.Tags, view.Tags)
        /\ \A i \in DOMAIN view.Tags :
               /\ PlainName(view.Tags[i].Name) =>
                      view.Tags[i].Path = SlashTag \o SlashStr \o view.Tags[i].Name
               /\ view.Tags[i].Name = EmptyStr => view.Tags[i].Path = SlashTag

\* A post tagged b, then a, is rendered with the groups of a, then b.
C10_Witness ==
    /\ call.op = "RenderPost"
    /\ view.kind = "Post"
    /\ call.post.Tags = <<StrB, StrA>>
    /\ view.Tags = <<MkGroup(StrA, SlashTag \o SlashStr \o StrA),
                     MkGroup(StrB, SlashTag \o SlashStr \o StrB)>>

====
